---- MODULE Spec2Model ----
\* Model of tensorboard/tools/diagnose_me.py: the check registry, the
\* runner main(), pip(), reflow(), readable_fqdn() and installed_packages().
EXTENDS Integers, Naturals, Sequences, FiniteSets, TLC

\* ---------------------------------------------------------------------
\* Bounds
\* ---------------------------------------------------------------------
MaxChecks == 2
MaxItems == 2

\* Headlines of suggestions a check can yield.
Headlines == {"x", "y"}

\* Exception classes a check can raise: "ok" (none), a subclass of
\* Exception, or a BaseException that is not an Exception: SystemExit(0),
\* SystemExit(2), KeyboardInterrupt.
ExcClasses == {"ok", "Exception", "SystemExit0", "SystemExit2", "KeyboardInterrupt"}

\* Exit status of the process when exc escapes main(): SystemExit(n) exits
\* with n; an uncaught KeyboardInterrupt kills the process with SIGINT
\* (returncode -2); any other uncaught exception exits with 1.
ExitStatus(exc) ==
  CASE exc = "SystemExit0" -> 0
    [] exc = "SystemExit2" -> 2
    [] exc = "KeyboardInterrupt" -> -2
    [] OTHER -> 1

ItemSeqs == UNION {[1..n -> Headlines] : n \in 0..MaxItems}

\* A registered function fn, described by what calling it does:
\*   "none"      returns None
\*   "list"      returns a list of suggestions
\*   "gen"       returns a generator that yields items, then raises exc
\*                (exc = "ok": the generator is exhausted normally)
\*   "callRaise" raises exc when called
\*   "registrar" calls check(late[1]) and returns None
\* (late is <<>> for every kind but "registrar")
LateFns ==
  {[kind |-> "list", items |-> <<"y">>, exc |-> "ok", late |-> <<>>],
   [kind |-> "gen", items |-> <<"x">>, exc |-> "Exception", late |-> <<>>]}
Fns ==
  {[kind |-> "none", items |-> <<>>, exc |-> "ok", late |-> <<>>]}
  \cup {[kind |-> "list", items |-> s, exc |-> "ok", late |-> <<>>] : s \in ItemSeqs}
  \cup {[kind |-> "gen", items |-> s, exc |-> e, late |-> <<>>] : s \in ItemSeqs, e \in ExcClasses}
  \cup {[kind |-> "callRaise", items |-> <<>>, exc |-> e, late |-> <<>>] : e \in ExcClasses \ {"ok"}}
  \cup {[kind |-> "registrar", items |-> <<>>, exc |-> "ok", late |-> <<l>>] : l \in LateFns}

\* The value fn() evaluates to (or the exception it raises).
FnCall(fn) ==
  CASE fn.kind \in {"none", "registrar"} -> [type |-> "None", items |-> <<>>, exc |-> "ok"]
    [] fn.kind = "list" -> [type |-> "list", items |-> fn.items, exc |-> "ok"]
    [] fn.kind = "gen" -> [type |-> "gen", items |-> fn.items, exc |-> fn.exc]
    [] fn.kind = "callRaise" -> [type |-> "raised", items |-> <<>>, exc |-> fn.exc]

Wrapper_NoDefault(fn) == FnCall(fn)

\* check(fn)'s wrapper: result = fn(); return iter(()) if result is None else result
Wrapper(fn) ==
  LET result == FnCall(fn) IN
  IF result.type = "None"
    THEN [type |-> "iter", items |-> <<>>, exc |-> "ok"]
    ELSE result

Extend_Prepend(l, r) ==
  IF r.type = "raised" THEN l ELSE r.items \o l

Extend_DropPartial(l, r) ==
  IF r.type = "raised" \/ r.exc # "ok" THEN l ELSE l \o r.items

\* list.extend(iterable): items are appended as the iterable yields them,
\* so items yielded before an exception stay in the list.
Extend(l, r) ==
  IF r.type = "raised" THEN l ELSE l \o r.items

Caught_Nothing(exc) == FALSE

\* except Exception: catches Exception subclasses, not other BaseExceptions
Caught(exc) == exc = "Exception"

\* Output lines of the report.
Line(t, s, n) == [t |-> t, s |-> s, n |-> n]
Blank == Line("blank", "", 0)
Fence == Line("text", "markdown_ticks", 0)

VARIABLES CHECKS, pc, ci, suggestions, origin, out, exitCode,
          lastFn, lastRet, before

\* history of the functions passed to check(), in call order
VARIABLE regs

\* pip(): os.environ["PYTHONWARNINGS"], the value the subprocess sees, the
\* local old_pythonwarnings and the position in the call.
VARIABLES penv, pold, pchild, ppc, pcalls, psaved

\* reflow(): its input and its outputs after one and two applications.
VARIABLES rin, rout1, rout2, rstep

\* readable_fqdn(): its inputs, what it yielded and how it ended.
VARIABLES fqdnOk, hostCmd, hostOut, fyield, fend

\* installed_packages(): the pip freeze lines and what the check yielded.
VARIABLES freeze, kyield, kdone

mainVars == <<CHECKS, pc, ci, suggestions, origin, out, exitCode,
              lastFn, lastRet, before, regs>>
pipVars == <<penv, pold, pchild, ppc, pcalls, psaved>>
reflowVars == <<rin, rout1, rout2, rstep>>
fqdnVars == <<fqdnOk, hostCmd, hostOut, fyield, fend>>
pkgVars == <<freeze, kyield, kdone>>
vars == <<mainVars, pipVars, reflowVars, fqdnVars, pkgVars>>

PipIdle ==
  /\ penv = "absent" /\ pold = "absent" /\ pchild = "absent"
  /\ ppc = "idle" /\ pcalls = 0 /\ psaved = "absent"
ReflowIdle == rin = <<>> /\ rout1 = <<>> /\ rout2 = <<>> /\ rstep = 0
FqdnIdle ==
  /\ fqdnOk = TRUE /\ hostCmd = "ok" /\ hostOut = <<>>
  /\ fyield = <<>> /\ fend = "running"
PkgIdle == freeze = {} /\ kyield = <<>> /\ kdone = FALSE

NoRet == [type |-> "nothing", items |-> <<>>, exc |-> "ok"]
NoFn == [kind |-> "nothing", items |-> <<>>, exc |-> "ok", late |-> <<>>]

Init ==
  /\ CHECKS = <<>>
  /\ pc = "load"
  /\ ci = 1
  /\ suggestions = <<>>
  /\ origin = <<>>
  /\ out = <<>>
  /\ exitCode = -1
  /\ lastFn = NoFn
  /\ lastRet = NoRet
  /\ before = <<>>
  /\ regs = <<>>
  /\ PipIdle /\ ReflowIdle /\ FqdnIdle /\ PkgIdle

CheckAppend_Prepend(cs, fn) == <<fn>> \o cs

\* check(fn): CHECKS.append(wrapper)
CheckAppend(cs, fn) == Append(cs, fn)

\* check(fn) at module load, before main()
Register ==
  /\ pc = "load"
  /\ Len(CHECKS) < MaxChecks
  /\ \E fn \in Fns : CHECKS' = CheckAppend(CHECKS, fn) /\ regs' = Append(regs, fn)
  /\ UNCHANGED <<pc, ci, suggestions, origin, out, exitCode, lastFn, lastRet, before>>
  /\ UNCHANGED <<pipVars, reflowVars, fqdnVars, pkgVars>>

\* main(), up to the loop: print the heading and the opening fence.
Start ==
  /\ pc = "load"
  /\ pc' = "run"
  /\ out' = <<Line("text", "### Diagnostics", 0), Blank, Fence>>
  /\ UNCHANGED <<CHECKS, ci, suggestions, origin, exitCode, lastFn, lastRet, before, regs>>
  /\ UNCHANGED <<pipVars, reflowVars, fqdnVars, pkgVars>>

\* One iteration of main()'s loop over CHECKS.
RunCheck ==
  /\ pc = "run"
  /\ ci <= Len(CHECKS)
  /\ LET fn == CHECKS[ci]
         r == Wrapper(fn)
         framed == Append(out, Line("frame", "", ci))
     IN /\ suggestions' = Extend(suggestions, r)
        /\ origin' = Extend(origin, [r EXCEPT !.items = [j \in DOMAIN r.items |-> ci]])
        /\ lastFn' = fn
        /\ lastRet' = r
        /\ before' = suggestions
        /\ IF r.exc = "ok"
             THEN /\ out' = framed /\ ci' = ci + 1
                  /\ UNCHANGED <<pc, exitCode>>
           ELSE IF Caught(r.exc)
             THEN /\ out' = Append(framed, Line("traceback", "", ci))
                  /\ ci' = ci + 1
                  /\ UNCHANGED <<pc, exitCode>>
           \* except Exception does not catch it: the program dies
           ELSE /\ out' = framed
                /\ ci' = ci
                /\ pc' = "crashed"
                /\ exitCode' = ExitStatus(r.exc)
        \* a check body may itself call check(); the for loop then reaches it
        /\ CHECKS' = IF fn.kind = "registrar" THEN CheckAppend(CHECKS, fn.late[1])
                     ELSE CHECKS
        /\ regs' = IF fn.kind = "registrar" THEN Append(regs, fn.late[1]) ELSE regs
  /\ UNCHANGED <<pipVars, reflowVars, fqdnVars, pkgVars>>

SuggestionLines(s) ==
  [k \in 1..4 * Len(s) |->
     LET i == (k - 1) \div 4 + 1 IN
     CASE (k - 1) % 4 = 0 -> Blank
       [] (k - 1) % 4 = 1 -> Line("suggestion", s[i], 0)
       [] (k - 1) % 4 = 2 -> Blank
       [] (k - 1) % 4 = 3 -> Line("description", s[i], 0)]

NextStepsFooter_Inverted(s) ==
  IF s = <<>>
    THEN Line("text", "Please try each suggestion", 0)
    ELSE Line("text", "No action items identified", 0)

\* if suggestions: "Please try each suggestion ..." else "No action items ..."
NextStepsFooter(s) ==
  IF s # <<>>
    THEN Line("text", "Please try each suggestion", 0)
    ELSE Line("text", "No action items identified", 0)

\* main(), after the loop: closing fence, suggestions, next steps.
Finish ==
  /\ pc = "run"
  /\ ci > Len(CHECKS)
  /\ out' = out \o <<Fence, Blank, Line("text", "End of diagnostics.", 0)>>
                \o SuggestionLines(suggestions)
                \o <<Blank, Line("text", "### Next steps", 0), Blank,
                     NextStepsFooter(suggestions)>>
  /\ pc' = "done"
  /\ exitCode' = 0
  /\ UNCHANGED <<CHECKS, ci, suggestions, origin, lastFn, lastRet, before, regs>>
  /\ UNCHANGED <<pipVars, reflowVars, fqdnVars, pkgVars>>

Next == Register \/ Start \/ RunCheck \/ Finish

Spec == Init /\ [][Next]_vars

\* ---------------------------------------------------------------------
\* Properties of the runner
\* ---------------------------------------------------------------------

\* Items a registered function produces before it returns or raises.
Yielded(fn) == IF fn.kind = "callRaise" THEN <<>> ELSE fn.items

\* The check raises (at call time or while its generator is consumed).
Raises(fn) == fn.exc # "ok"

RECURSIVE ConcatYielded(_, _, _)
ConcatYielded(cs, n, onlyOk) ==
  IF n = 0 THEN <<>>
  ELSE ConcatYielded(cs, n - 1, onlyOk)
         \o (IF onlyOk /\ Raises(cs[n]) THEN <<>> ELSE Yielded(cs[n]))

Finished == pc = "done"

\* C1 (original): the accumulated suggestions are the concatenation, in
\* registration order, of the suggestions of the checks that did not raise;
\* a check that raises contributes nothing.
C1_Original ==
  Finished => suggestions = ConcatYielded(CHECKS, Len(CHECKS), TRUE)

\* C1 (amended): the accumulated suggestions are the concatenation, in
\* registration order, of every suggestion each check yielded before it
\* completed or raised; a check that raises when called contributes nothing.
C1_Concat ==
  pc \in {"run", "done"} =>
    suggestions = ConcatYielded(CHECKS, ci - 1, FALSE)

C1_Witness ==
  /\ Finished
  /\ \E k \in 1..Len(CHECKS) : Raises(CHECKS[k])
  /\ \E k \in 1..Len(CHECKS) : ~Raises(CHECKS[k]) /\ Yielded(CHECKS[k]) # <<>>

\* C2 (original): a check that yields some suggestions and then raises
\* leaves the accumulated list as it was before that check ran.
C2_Original ==
  (lastRet.type = "gen" /\ lastRet.exc = "Exception") => suggestions = before

\* C2 (amended): a check whose generator yields k suggestions and then raises
\* an Exception keeps those k suggestions in the accumulated list.
C2_PartialKept ==
  (lastRet.type = "gen" /\ lastRet.exc = "Exception") =>
    suggestions = before \o lastFn.items

C2_Witness ==
  lastRet.type = "gen" /\ lastRet.exc = "Exception" /\ Len(lastFn.items) >= 1

\* Framing and traceback lines main() must print for the registry.
RECURSIVE CheckLines(_, _)
CheckLines(cs, n) ==
  IF n = 0 THEN <<>>
  ELSE CheckLines(cs, n - 1) \o <<Line("frame", "", n)>>
         \o (IF Raises(cs[n]) THEN <<Line("traceback", "", n)>> ELSE <<>>)

Terminated == pc \in {"done", "crashed"}

\* C3 (original): whatever the checks raise, main() frames and runs every
\* check, prints each failing check's traceback, reaches the end of the
\* report and exits with status 0.
C3_Original ==
  Terminated =>
    /\ pc = "done"
    /\ exitCode = 0
    /\ SubSeq(out, 4, 3 + Len(CheckLines(CHECKS, Len(CHECKS))))
         = CheckLines(CHECKS, Len(CHECKS))

\* C3 (amended): when every failing check raises a subclass of Exception,
\* main() frames and runs every check, prints each failing check's
\* traceback, reaches the end of the report and exits with status 0.
C3_Contained ==
  (Terminated /\ \A k \in 1..Len(CHECKS) : CHECKS[k].exc \in {"ok", "Exception"}) =>
    /\ pc = "done"
    /\ exitCode = 0
    /\ SubSeq(out, 4, 3 + Len(CheckLines(CHECKS, Len(CHECKS))))
         = CheckLines(CHECKS, Len(CHECKS))
    /\ \E i \in 1..Len(out) : out[i] = Line("text", "End of diagnostics.", 0)
    /\ \E i \in 1..Len(out) : out[i] = Line("text", "### Next steps", 0)

C3_Witness ==
  Finished /\ \E k \in 1..Len(CHECKS) : CHECKS[k].exc = "Exception"

\* C4: the wrapper never returns None; for fn() returning None it returns an
\* empty iterator, otherwise fn()'s result unchanged.
C4_WrapperNeverNone ==
  LET returnsNone == lastFn.kind \in {"none", "registrar"} IN
  lastFn # NoFn =>
    /\ lastRet.type # "None"
    /\ IF returnsNone
         THEN lastRet = [type |-> "iter", items |-> <<>>, exc |-> "ok"]
         ELSE lastRet = FnCall(lastFn)
    /\ returnsNone => suggestions = before

C4_Witness == lastFn.kind = "none" /\ pc = "done"

\* C5: every check(fn) call appends exactly one wrapper at the end of CHECKS
\* (CHECKS is the sequence of the functions passed to check(), in call
\* order, duplicates kept), main() frames the checks in CHECKS order, and the
\* suggestions of an earlier check precede those of a later one.
C5_Order ==
  /\ CHECKS = regs
  /\ \A i, j \in 1..Len(origin) : i < j => origin[i] <= origin[j]
  /\ Finished =>
       SelectSeq(out, LAMBDA l : l.t = "frame")
         = [k \in 1..Len(CHECKS) |-> Line("frame", "", k)]

C5_Witness ==
  /\ Finished
  /\ Len(CHECKS) = 2 /\ CHECKS[1] = CHECKS[2] /\ CHECKS[1].items # <<>>
  /\ Len(origin) >= 2 /\ origin[1] = 1 /\ origin[Len(origin)] = 2

RECURSIVE SectionLines(_)
SectionLines(s) ==
  IF s = <<>> THEN <<>>
  ELSE <<Blank, Line("suggestion", Head(s), 0), Blank, Line("description", Head(s), 0)>>
         \o SectionLines(Tail(s))

\* The report main() prints for a run that reaches its end.
ExpectedReport ==
  <<Line("text", "### Diagnostics", 0), Blank, Fence>>
  \o CheckLines(CHECKS, Len(CHECKS))
  \o <<Fence, Blank, Line("text", "End of diagnostics.", 0)>>
  \o SectionLines(suggestions)
  \o <<Blank, Line("text", "### Next steps", 0), Blank,
       IF suggestions # <<>>
         THEN Line("text", "Please try each suggestion", 0)
         ELSE Line("text", "No action items identified", 0)>>

\* C6: a finished run prints the fence, one framing line (plus traceback)
\* per check, the closing fence, the end marker, one section per suggestion,
\* and the footer matching whether any suggestion was found.
\* C6 (original): the report main() prints is the fence, the framed checks,
\* the closing fence, the end marker, the suggestion sections and the footer.
C6_Original == Terminated => out = ExpectedReport

\* C6 (amended): a run that reaches the end of main() prints that report; a
\* run in which a check raises a BaseException that is not an Exception
\* stops after that check's framing line, with no closing fence, end marker,
\* suggestions or footer.
C6_Report ==
  /\ Finished => out = ExpectedReport
  /\ pc = "crashed" =>
       out = <<Line("text", "### Diagnostics", 0), Blank, Fence>>
               \o CheckLines(CHECKS, ci - 1) \o <<Line("frame", "", ci)>>

C6_Witness == pc = "crashed" /\ ci = 2 /\ CHECKS[1].exc = "Exception"

\* ---------------------------------------------------------------------
\* pip(args)
\* ---------------------------------------------------------------------
MaxPipCalls == 5

\* Values PYTHONWARNINGS can hold before a call ("absent": not set).
EnvValues == {"absent", "", "default", "error", "ignore", "always"}

\* new_pythonwarnings: "ignore:DEPRECATION" plus ",<old>" when old is truthy
NewPythonWarnings(old) ==
  "ignore:DEPRECATION" \o (IF old \in {"absent", ""} THEN "" ELSE "," \o old)

RestoreEnv_Falsy(old) == IF old \in {"absent", ""} THEN "absent" ELSE old

\* finally-clause of pip(): del the key if old was None, else restore old
RestoreEnv(old) == IF old = "absent" THEN "absent" ELSE old

InitPip ==
  /\ CHECKS = <<>> /\ pc = "load" /\ ci = 1 /\ suggestions = <<>>
  /\ origin = <<>> /\ out = <<>> /\ exitCode = -1 /\ lastFn = NoFn
  /\ lastRet = NoRet /\ before = <<>> /\ regs = <<>>
  /\ penv \in EnvValues
  /\ pold = "absent" /\ pchild = "absent" /\ ppc = "idle" /\ pcalls = 0
  /\ psaved = penv
  /\ ReflowIdle /\ FqdnIdle /\ PkgIdle

\* pip(): read old value, set the override (start of the try block).
PipSet ==
  /\ ppc = "idle"
  /\ pcalls < MaxPipCalls
  /\ pold' = penv
  /\ psaved' = penv
  /\ penv' = NewPythonWarnings(penv)
  /\ ppc' = "call"
  /\ UNCHANGED <<pchild, pcalls>>
  /\ UNCHANGED <<mainVars, reflowVars, fqdnVars, pkgVars>>

\* subprocess.check_output(command): returns or raises CalledProcessError;
\* either way the finally clause runs next.
PipSubprocess ==
  /\ ppc = "call"
  /\ pchild' = penv
  /\ ppc' \in {"returned", "raised"}
  /\ UNCHANGED <<penv, pold, pcalls, psaved>>
  /\ UNCHANGED <<mainVars, reflowVars, fqdnVars, pkgVars>>

\* finally: restore the previous value or delete the key.
PipFinally ==
  /\ ppc \in {"returned", "raised"}
  /\ penv' = RestoreEnv(pold)
  /\ ppc' = "idle"
  /\ pcalls' = pcalls + 1
  /\ UNCHANGED <<pold, pchild, psaved>>
  /\ UNCHANGED <<mainVars, reflowVars, fqdnVars, pkgVars>>

NextPip == PipSet \/ PipSubprocess \/ PipFinally

SpecPip == InitPip /\ [][NextPip]_vars

\* C7: after pip() returns or raises, PYTHONWARNINGS is absent if it was
\* absent before the call and holds its prior value (even "") otherwise,
\* while the subprocess ran with the override set.
C7_EnvRestored ==
  /\ (ppc = "idle" /\ pcalls > 0) => penv = psaved
  /\ ppc \in {"returned", "raised"} => pchild = NewPythonWarnings(psaved)

C7_Witness == ppc = "idle" /\ pcalls > 0 /\ psaved = "" /\ pchild = "ignore:DEPRECATION"

\* ---------------------------------------------------------------------
\* reflow(paragraph) == textwrap.fill(textwrap.dedent(paragraph).strip())
\* Strings are sequences of one-character strings over the alphabet
\* Letters \cup {"-"} \cup the whitespace characters below.
\* ---------------------------------------------------------------------
\* textwrap.TextWrapper's default width and tabsize
TextWidth == 70
TabSize == 8

Letters == {"a", "b", "c"}

\* str.isspace() and textwrap._whitespace, on the alphabet
IsWs(c) == c \in {" ", "\n", "\t", "\r", "\f"}
IsWsStr(str) == \A i \in DOMAIN str : IsWs(str[i])

\* regex classes of textwrap.wordsep_re on the alphabet: letter [^\d\W],
\* word_punct [\w!"'&.,?] and \w all are the letters
IsLetter(c) == c \in Letters

Min2(a, b) == IF a < b THEN a ELSE b

Rep(c, n) == [i \in 1..n |-> c]

RECURSIVE FlattenSeq(_)
FlattenSeq(ss) == IF ss = <<>> THEN <<>> ELSE Head(ss) \o FlattenSeq(Tail(ss))

\* str.split("\n")
RECURSIVE SplitLines(_)
SplitLines(str) ==
  IF \A i \in DOMAIN str : str[i] # "\n" THEN <<str>>
  ELSE LET k == CHOOSE i \in DOMAIN str :
                  str[i] = "\n" /\ \A j \in 1..(i - 1) : str[j] # "\n"
       IN <<SubSeq(str, 1, k - 1)>> \o SplitLines(SubSeq(str, k + 1, Len(str)))

\* "\n".join(lines)
JoinLines(ls) ==
  FlattenSeq([i \in DOMAIN ls |-> IF i < Len(ls) THEN ls[i] \o <<"\n">> ELSE ls[i]])

\* (^[ \t]*): the leading spaces and tabs of a line
RECURSIVE LeadIndent(_)
LeadIndent(str) ==
  IF str # <<>> /\ str[1] \in {" ", "\t"} THEN <<str[1]>> \o LeadIndent(Tail(str))
  ELSE <<>>

\* textwrap.dedent: lines matching ^[ \t]+$ become empty; margin is the
\* longest common prefix of the indents of the lines holding a character
\* other than space or tab; it is removed from the start of every line.
Dedent(str) ==
  LET raw == SplitLines(str)
      ls == [i \in DOMAIN raw |->
               IF raw[i] # <<>> /\ \A j \in DOMAIN raw[i] : raw[i][j] \in {" ", "\t"}
                 THEN <<>> ELSE raw[i]]
      content == {i \in DOMAIN ls : \E j \in DOMAIN ls[i] : ls[i][j] \notin {" ", "\t"}}
      indents == {LeadIndent(ls[i]) : i \in content}
      ind1 == CHOOSE x \in indents : TRUE
      common(m) == \A x \in indents : Len(x) >= m /\ SubSeq(x, 1, m) = SubSeq(ind1, 1, m)
      margin == IF indents = {} THEN <<>>
                ELSE SubSeq(ind1, 1, CHOOSE m \in 0..Len(ind1) :
                                       common(m) /\ ~common(m + 1))
      mlen == Len(margin)
  IN JoinLines([i \in DOMAIN ls |->
                  IF Len(ls[i]) >= mlen /\ SubSeq(ls[i], 1, mlen) = margin
                    THEN SubSeq(ls[i], mlen + 1, Len(ls[i]))
                    ELSE ls[i]])

\* str.strip()
RECURSIVE LStrip(_)
LStrip(str) == IF str # <<>> /\ IsWs(str[1]) THEN LStrip(Tail(str)) ELSE str
RECURSIVE RStrip(_)
RStrip(str) ==
  IF str # <<>> /\ IsWs(str[Len(str)]) THEN RStrip(SubSeq(str, 1, Len(str) - 1))
  ELSE str
Strip(str) == RStrip(LStrip(str))

\* str.expandtabs(TabSize): a tab becomes TabSize - col % TabSize spaces;
\* the column restarts after "\n" and "\r". Recurses from tab to tab.
RECURSIVE ExpandTabsFrom(_, _)
ExpandTabsFrom(str, col) ==
  IF \A i \in DOMAIN str : str[i] # "\t" THEN str
  ELSE
    LET k == CHOOSE i \in DOMAIN str :
               str[i] = "\t" /\ \A j \in 1..(i - 1) : str[j] # "\t"
        breaks == {j \in 1..(k - 1) : str[j] \in {"\n", "\r"}}
        tabCol == IF breaks = {} THEN col + k - 1
                  ELSE k - 1 - (CHOOSE j \in breaks : \A b \in breaks : b <= j)
        n == TabSize - (tabCol % TabSize)
    IN SubSeq(str, 1, k - 1) \o Rep(" ", n)
         \o ExpandTabsFrom(SubSeq(str, k + 1, Len(str)), tabCol + n)

\* TextWrapper._munge_whitespace: expand tabs, then each of
\* "\t\n\x0b\x0c\r " becomes a space
Munge(str) ==
  LET e == ExpandTabsFrom(str, 0) IN
  [i \in DOMAIN e |-> IF IsWs(e[i]) THEN " " ELSE e[i]]

\* character at position i, "" outside the text
Ch(t, i) == IF i \in 1..Len(t) THEN t[i] ELSE ""

\* length of the run of characters satisfying ws-ness w from position p
RECURSIVE RunLen(_, _, _)
RunLen(t, p, ws) ==
  IF p <= Len(t) /\ IsWs(t[p]) = ws THEN 1 + RunLen(t, p + 1, ws) ELSE 0

RECURSIVE HyphenRun(_, _)
HyphenRun(t, p) == IF Ch(t, p) = "-" THEN 1 + HyphenRun(t, p + 1) ELSE 0

\* (?<=wp) -{2,} (?=\w) at position p
EmDashAt(t, p) ==
  /\ IsLetter(Ch(t, p - 1))
  /\ HyphenRun(t, p) >= 2
  /\ IsLetter(Ch(t, p + HyphenRun(t, p)))

\* after nws+? has taken t[p..p+n-1]: the hyphenated-word alternative
HyphenAlt(t, p, n) ==
  LET q == p + n IN
  /\ Ch(t, q) = "-"
  /\ \/ IsLetter(Ch(t, q - 2)) /\ IsLetter(Ch(t, q - 1))
     \/ IsLetter(Ch(t, q - 3)) /\ Ch(t, q - 2) = "-" /\ IsLetter(Ch(t, q - 1))
  /\ IsLetter(Ch(t, q + 1))
  /\ \/ IsLetter(Ch(t, q + 2))
     \/ Ch(t, q + 2) = "-" /\ IsLetter(Ch(t, q + 3))

\* the end-of-word and em-dash alternatives
EndAlt(t, p, n) ==
  LET q == p + n IN
  \/ q > Len(t) \/ IsWs(t[q])
  \/ IsLetter(Ch(t, q - 1)) /\ HyphenRun(t, q) >= 2 /\ IsLetter(Ch(t, q + HyphenRun(t, q)))

\* length of the wordsep_re match at position p
ChunkLen(t, p) ==
  IF IsWs(t[p]) THEN RunLen(t, p, TRUE)
  ELSE IF EmDashAt(t, p) THEN HyphenRun(t, p)
  ELSE LET n == CHOOSE k \in 1..RunLen(t, p, FALSE) :
                  /\ HyphenAlt(t, p, k) \/ EndAlt(t, p, k)
                  /\ \A j \in 1..(k - 1) : ~(HyphenAlt(t, p, j) \/ EndAlt(t, p, j))
       IN IF HyphenAlt(t, p, n) THEN n + 1 ELSE n

\* TextWrapper._split: wordsep_re.split(text) without empty pieces
RECURSIVE SplitFrom(_, _)
SplitFrom(t, p) ==
  IF p > Len(t) THEN <<>>
  ELSE <<SubSeq(t, p, p + ChunkLen(t, p) - 1)>> \o SplitFrom(t, p + ChunkLen(t, p))
SplitChunks(t) == SplitFrom(t, 1)

\* inner loop of _wrap_chunks: how many chunks fit on the current line
RECURSIVE TakeFit(_, _, _)
TakeFit(chunks, curLen, width) ==
  IF chunks # <<>> /\ curLen + Len(Head(chunks)) <= width
    THEN 1 + TakeFit(Tail(chunks), curLen + Len(Head(chunks)), width)
    ELSE 0

SumLen(cs) == Len(FlattenSeq(cs))

\* _handle_long_word: end of the piece of chunk put on the line; after the
\* last hyphen within space_left when non-hyphens precede it
LongWordEnd(chunk, spaceLeft) ==
  LET hs == {i \in 2..Min2(spaceLeft, Len(chunk)) : chunk[i] = "-"}
      h == IF hs = {} THEN 0 ELSE CHOOSE i \in hs : \A j \in hs : j <= i
  IN IF Len(chunk) > spaceLeft /\ h > 0 /\ \E j \in 1..(h - 1) : chunk[j] # "-"
       THEN h ELSE spaceLeft

\* TextWrapper._wrap_chunks (no indents, drop_whitespace, break_long_words)
RECURSIVE WrapLoop(_, _, _)
WrapLoop(chunks, lines, width) ==
  IF chunks = <<>> THEN lines
  ELSE
    LET c1 == IF IsWsStr(Head(chunks)) /\ lines # <<>> THEN Tail(chunks) ELSE chunks
        n == TakeFit(c1, 0, width)
        cur0 == SubSeq(c1, 1, n)
        rest0 == SubSeq(c1, n + 1, Len(c1))
        long == rest0 # <<>> /\ Len(Head(rest0)) > width
        spaceLeft == IF width < 1 THEN 1 ELSE width - SumLen(cur0)
        end == LongWordEnd(Head(rest0), spaceLeft)
        cur1 == IF long THEN Append(cur0, SubSeq(Head(rest0), 1, end)) ELSE cur0
        rest1 == IF long
                   THEN <<SubSeq(Head(rest0), end + 1, Len(Head(rest0)))>> \o Tail(rest0)
                   ELSE rest0
        cur2 == IF cur1 # <<>> /\ IsWsStr(cur1[Len(cur1)])
                  THEN SubSeq(cur1, 1, Len(cur1) - 1) ELSE cur1
    IN WrapLoop(rest1,
                IF cur2 # <<>> THEN Append(lines, FlattenSeq(cur2)) ELSE lines,
                width)

\* width <= 0 raises ValueError
WrapChunks(chunks, width) ==
  IF width <= 0 THEN "ValueError" ELSE WrapLoop(chunks, <<>>, width)

\* textwrap.fill(text) == "\n".join(wrap(text))
Fill(text) == JoinLines(WrapChunks(SplitChunks(Munge(text)), TextWidth))

reflow_NoStrip(paragraph) == Fill(Dedent(paragraph))

reflow(paragraph) == Fill(Strip(Dedent(paragraph)))

\* Inputs: an optional indented first line, a word (plain, hyphenated or
\* with an em-dash), a separator and a second word.
MinWordA == 66
MaxWordA == 72
MaxWordB == 3
Leads == {<<>>, <<"\n", " ", " ", " ", " ">>, <<"\n", "\t">>}
Seps == {<<" ">>, <<" ", " ">>, <<"\n">>, <<"\n", " ", " ", " ", " ">>,
         <<"\n", " ", " ">>, <<"\t">>, <<"\r", "\n">>, <<"\n", "\t">>}
WordBLens == (1..MaxWordB) \cup (69..MaxWordA)
FirstWord(n, h) ==
  CASE h = 0 -> Rep("a", n)
    [] h = 1 -> Rep("a", n - 4) \o <<"-", "b", "b", "b">>
    [] h = 2 -> Rep("a", n - 4) \o <<"-", "-", "b", "b">>
ReflowInputs ==
  {l \o FirstWord(n1, h) \o sp \o Rep("c", n2) :
     l \in Leads, sp \in Seps, n1 \in MinWordA..MaxWordA, h \in 0..2, n2 \in WordBLens}

InitReflow ==
  /\ CHECKS = <<>> /\ pc = "load" /\ ci = 1 /\ suggestions = <<>>
  /\ origin = <<>> /\ out = <<>> /\ exitCode = -1 /\ lastFn = NoFn
  /\ lastRet = NoRet /\ before = <<>> /\ regs = <<>>
  /\ PipIdle /\ FqdnIdle /\ PkgIdle
  /\ rin \in ReflowInputs /\ rout1 = <<>> /\ rout2 = <<>> /\ rstep = 0

ReflowOnce ==
  /\ rstep = 0
  /\ rout1' = reflow(rin)
  /\ rstep' = 1
  /\ UNCHANGED <<rin, rout2>>
  /\ UNCHANGED <<mainVars, pipVars, fqdnVars, pkgVars>>

ReflowTwice ==
  /\ rstep = 1
  /\ rout2' = reflow(rout1)
  /\ rstep' = 2
  /\ UNCHANGED <<rin, rout1>>
  /\ UNCHANGED <<mainVars, pipVars, fqdnVars, pkgVars>>

NextReflow == ReflowOnce \/ ReflowTwice

SpecReflow == InitReflow /\ [][NextReflow]_vars

\* every line with its trailing whitespace removed
TrimLines(str) == JoinLines([i \in DOMAIN SplitLines(str) |-> RStrip(SplitLines(str)[i])])

\* no tab and no two adjacent whitespace characters
SingleSpaced(str) ==
  /\ \A i \in DOMAIN str : str[i] # "\t"
  /\ \A i \in 1..(Len(str) - 1) : ~(IsWs(str[i]) /\ IsWs(str[i + 1]))

\* text of a line up to its first whitespace character
LeadWord(l) ==
  LET ws == {i \in DOMAIN l : IsWs(l[i])} IN
  IF ws = {} THEN l ELSE SubSeq(l, 1, (CHOOSE i \in ws : \A j \in ws : i <= j) - 1)

\* flowed prose: no line starts with whitespace, and every line break is a
\* wrap point: the next line's first word would not fit after a space
Flowed(str) ==
  LET ls == SplitLines(str) IN
  /\ \A i \in DOMAIN ls : ls[i] # <<>> /\ ~IsWs(ls[i][1])
  /\ \A i \in 1..(Len(ls) - 1) :
       Len(RStrip(ls[i])) + 1 + Len(LeadWord(ls[i + 1])) > TextWidth

\* C8 (original): reflow is idempotent, and its output has no leading
\* whitespace and is flowed prose (input newlines collapsed).
C8_Original ==
  rstep = 2 => (rout2 = rout1 /\ ~IsWs(rout1[1]) /\ Flowed(rout1))

\* C8 (amended): reflow's output never starts with whitespace; when the
\* dedented, stripped paragraph has no tab and no run of two or more
\* whitespace characters, reflow(reflow(p)) equals reflow(p) up to trailing
\* whitespace at line ends, and reflow(p) is flowed prose.
C8_IdempotentSingleSpaced ==
  /\ rstep >= 1 => ~IsWs(rout1[1])
  /\ (rstep = 2 /\ SingleSpaced(Strip(Dedent(rin)))) =>
       /\ TrimLines(rout2) = TrimLines(rout1)
       /\ Flowed(rout1)

C8_Witness ==
  /\ rstep = 2
  /\ rin[1] = "\n"
  /\ SingleSpaced(Strip(Dedent(rin)))
  /\ \E i \in DOMAIN rin : rin[i] = "-"
  /\ Len(SplitLines(rout1)) >= 2

\* ---------------------------------------------------------------------
\* readable_fqdn()
\* ---------------------------------------------------------------------
MaxHostLen == 3

\* Bytes the `hostname` command can print: newline, space, "A", DEL, 0xC3.
HostBytes == {10, 32, 65, 127, 195}
HostOutputs == UNION {[1..n -> HostBytes] : n \in 0..MaxHostLen}

\* b"<unavailable>"
Unavailable == <<60, 117, 110, 97, 118, 97, 105, 108, 97, 98, 108, 101, 62>>

\* bytes.strip(): ASCII whitespace b" \t\n\r\x0b\x0c"
IsByteWs(b) == b \in {9, 10, 11, 12, 13, 32}
RECURSIVE LStripBytes(_)
LStripBytes(bs) == IF bs # <<>> /\ IsByteWs(bs[1]) THEN LStripBytes(Tail(bs)) ELSE bs
RECURSIVE RStripBytes(_)
RStripBytes(bs) ==
  IF bs # <<>> /\ IsByteWs(bs[Len(bs)]) THEN RStripBytes(SubSeq(bs, 1, Len(bs) - 1))
  ELSE bs
StripBytes(bs) == RStripBytes(LStripBytes(bs))

\* is_non_ascii = not all(0x20 <= c <= 0x7E for c in binary_hostname)
IsNonAscii(bs) == ~(\A i \in DOMAIN bs : 32 <= bs[i] /\ bs[i] <= 126)

InitFqdn ==
  /\ CHECKS = <<>> /\ pc = "load" /\ ci = 1 /\ suggestions = <<>>
  /\ origin = <<>> /\ out = <<>> /\ exitCode = -1 /\ lastFn = NoFn
  /\ lastRet = NoRet /\ before = <<>> /\ regs = <<>>
  /\ PipIdle /\ ReflowIdle /\ PkgIdle
  /\ fqdnOk \in BOOLEAN
  /\ hostCmd \in {"ok", "nonzero", "notfound"}
  /\ hostOut \in HostOutputs
  /\ fyield = <<>> /\ fend = "running"

\* readable_fqdn() consumed to its end, when socket.getfqdn() succeeds.
FqdnSucceeds ==
  /\ fend = "running"
  /\ fqdnOk
  /\ fend' = "returned"
  /\ UNCHANGED <<fqdnOk, hostCmd, hostOut, fyield>>
  /\ UNCHANGED <<mainVars, pipVars, reflowVars, pkgVars>>

\* readable_fqdn() consumed to its end, when socket.getfqdn() raises
\* UnicodeDecodeError: run `hostname`, yield one suggestion, re-raise.
\* Only CalledProcessError (non-zero exit) is caught around `hostname`; a
\* missing binary raises OSError out of the except block.
FqdnDecodeError ==
  /\ fend = "running"
  /\ ~fqdnOk
  /\ IF hostCmd = "notfound"
       THEN /\ fend' = "raisedOSError"
            /\ UNCHANGED fyield
       ELSE LET binary_hostname ==
                  IF hostCmd = "ok" THEN StripBytes(hostOut) ELSE Unavailable
            IN /\ fyield' = <<IF IsNonAscii(binary_hostname)
                                THEN "Use an ASCII hostname"
                                ELSE "Use a simpler hostname">>
               /\ fend' = "raisedUnicodeDecodeError"
  /\ UNCHANGED <<fqdnOk, hostCmd, hostOut>>
  /\ UNCHANGED <<mainVars, pipVars, reflowVars, pkgVars>>

NextFqdn == FqdnSucceeds \/ FqdnDecodeError

SpecFqdn == InitFqdn /\ [][NextFqdn]_vars

\* The hostname bytes readable_fqdn classifies (the claim's reading).
ClaimHostBytes == IF hostCmd = "ok" THEN StripBytes(hostOut) ELSE Unavailable

\* C9: on UnicodeDecodeError readable_fqdn yields exactly one suggestion,
\* "Use an ASCII hostname" iff some hostname byte is outside 0x20..0x7E and
\* "Use a simpler hostname" otherwise, then re-raises; when getfqdn succeeds
\* it yields nothing and does not raise.
C9_Classify ==
  fend # "running" =>
    IF fqdnOk
      THEN fyield = <<>> /\ fend = "returned"
      ELSE /\ Len(fyield) = 1
           /\ fend = "raisedUnicodeDecodeError"
           /\ fyield[1] = IF IsNonAscii(ClaimHostBytes)
                            THEN "Use an ASCII hostname"
                            ELSE "Use a simpler hostname"

\* ---------------------------------------------------------------------
\* installed_packages()
\* A pip freeze line is the sequence of its "=="-separated parts.
\* ---------------------------------------------------------------------
FreezeLines ==
  { <<"tensorboard", "2.0.0">>, <<"tb-nightly", "2.1.0a1">>,
    <<"tensorflow", "2.0.0">>, <<"tf-nightly-gpu", "2.1.0">>,
    <<"tensorflow-gpu", "1.15", "x">>,
    <<"tensorflow-estimator", "2.0.0">>, <<"tf-estimator-nightly", "2.1">>,
    <<"numpy", "1.17.0">>, <<"tensorboard">>, <<"-e git+https://x#egg=y">> }

\* expect_unique
ExpectUnique ==
  << {"tensorboard", "tb-nightly"},
     {"tensorflow", "tensorflow-gpu", "tf-nightly", "tf-nightly-2.0-preview",
      "tf-nightly-gpu", "tf-nightly-gpu-2.0-preview"},
     {"tensorflow-estimator", "tensorflow-estimator-2.0-preview",
      "tf-estimator-nightly"} >>

\* sorted(frozenset().union(*expect_unique))
SortedFamilyNames ==
  << "tb-nightly", "tensorboard", "tensorflow", "tensorflow-estimator",
     "tensorflow-estimator-2.0-preview", "tensorflow-gpu",
     "tf-estimator-nightly", "tf-nightly", "tf-nightly-2.0-preview",
     "tf-nightly-gpu", "tf-nightly-gpu-2.0-preview" >>

\* packages_set = frozenset({line.split("==")[0]: line for line in freeze})
PackagesSet(lines) == {l[1] : l \in lines}

FoundConflict_AnyInstalled(pkgs) ==
  \E f \in 1..Len(ExpectUnique) : Cardinality(ExpectUnique[f] \cap pkgs) > 0

\* found_conflict: some family has len(actual) > 1
FoundConflict(pkgs) ==
  \E f \in 1..Len(ExpectUnique) : Cardinality(ExpectUnique[f] \cap pkgs) > 1

\* packages_to_uninstall = sorted(frozenset().union(*expect_unique) & packages_set)
PackagesToUninstall(pkgs) == SelectSeq(SortedFamilyNames, LAMBDA n : n \in pkgs)

InitPkg ==
  /\ CHECKS = <<>> /\ pc = "load" /\ ci = 1 /\ suggestions = <<>>
  /\ origin = <<>> /\ out = <<>> /\ exitCode = -1 /\ lastFn = NoFn
  /\ lastRet = NoRet /\ before = <<>> /\ regs = <<>>
  /\ PipIdle /\ ReflowIdle /\ FqdnIdle
  /\ freeze \in SUBSET FreezeLines
  /\ kyield = <<>> /\ kdone = FALSE

\* installed_packages() consumed to its end
InstalledPackages ==
  /\ ~kdone
  /\ LET pkgs == PackagesSet(freeze) IN
       kyield' = IF FoundConflict(pkgs)
                   THEN <<[headline |-> "Fix conflicting installations",
                           uninstall |-> PackagesToUninstall(pkgs)]>>
                   ELSE <<>>
  /\ kdone' = TRUE
  /\ UNCHANGED freeze
  /\ UNCHANGED <<mainVars, pipVars, reflowVars, fqdnVars>>

NextPkg == InstalledPackages

SpecPkg == InitPkg /\ [][NextPkg]_vars

\* Names of the installed packages: the text before the first "==".
InstalledNames == {l[1] : l \in freeze}

\* position of a family name in Python's string order
Rank(n) == CHOOSE i \in 1..Len(SortedFamilyNames) : SortedFamilyNames[i] = n

\* C10: installed_packages yields one "Fix conflicting installations"
\* suggestion iff some family has two or more installed members, none
\* otherwise; its uninstall list is exactly the installed family members,
\* sorted.
C10_Conflicts ==
  kdone =>
    LET fam == {n \in InstalledNames : \E f \in 1..3 : n \in ExpectUnique[f]}
        conflict == \E f \in 1..3 : Cardinality(InstalledNames \cap ExpectUnique[f]) >= 2
    IN IF conflict
         THEN /\ Len(kyield) = 1
              /\ kyield[1].headline = "Fix conflicting installations"
              /\ {kyield[1].uninstall[i] : i \in DOMAIN kyield[1].uninstall} = fam
              /\ \A i, j \in DOMAIN kyield[1].uninstall :
                   i < j => Rank(kyield[1].uninstall[i]) < Rank(kyield[1].uninstall[j])
         ELSE kyield = <<>>

C10_Witness ==
  /\ kdone /\ Len(kyield) = 1
  /\ <<"tensorboard">> \in freeze
  /\ Len(kyield[1].uninstall) >= 3

====
